---- MODULE Spec2Model ----
(***************************************************************************)
(* Model of the pizza-delivery agent controller                            *)
(* (Lab_1/Source/Lab_1/SimpleAIController.cpp).                            *)
(*                                                                         *)
(* The controller state is the four members of ASimpleAIController; the   *)
(* world (pending orders, distances, deadlines, pizza held) is owned by    *)
(* the game and only read or driven through the controller's facade calls. *)
(* One Tick of the controller is one action.  Distances and times are the  *)
(* float values of the source restricted to a few integers on both sides   *)
(* of every comparison the code makes.                                     *)
(*                                                                         *)
(* The second part models the battery-collector game of the Lesson_1       *)
(* tutorial: game mode, spawn volumes, character and battery pickups.  It  *)
(* has its own variables and its own specification, GameSpec; each of the  *)
(* two specifications leaves the variables of the other part alone.        *)
(***************************************************************************)
EXTENDS Integers, Sequences, FiniteSets, TLC

(* ---------------------------- bounds ----------------------------------- *)
MaxOrders == 2
MaxPizza == 2

MaxBatteries == 2
MaxLiveOrders == 1

(* ------------------------ program constants ---------------------------- *)
ArrivalRadius == 300
BurnMargin == 5
NoOrder == -1
MaxSpeed == 100

Houses == {0, 1}
OrderNumbers == 0 .. MaxOrders
DistVals == {100, 300, 500}
TimeVals == {2, 6, 9}
\* the time left shown by a house that is not waiting for a pizza
FullTime == 9

(* An FVector is modelled by an integer: ZeroVector is the value the       *)
(* member holds before Tick ever assigns it, 10 + h is the location of     *)
(* house h.                                                                *)
ZeroVector == 0
HouseLocations == [h \in Houses |-> 10 + h]
Points == {HouseLocations[h] : h \in Houses}

VARIABLES
    bDeliveringOrder,    \* controller: delivery phase (TRUE = EnRoute)
    CurrentOrderNumber,  \* controller: active order id, -1 when none
    CurrentDestination,  \* controller: point the agent is heading to
    terribleStatus,      \* controller: 0 Normal, 1 Flagged, 2 Committed
    Orders,              \* world: pending orders, in GetPizzaOrders() order
    dist,                \* world: distance from the agent to each point
    timeLeft,            \* world: remaining time of each house
    PizzaAmount,         \* world: pizzas the agent holds
    moveTarget,          \* world: last point given to SetNewMoveDestination
    branch,              \* trace: what the last step was
    calls,               \* trace: facade calls issued by the last Tick
    pre,                 \* trace: controller state before the last Tick
    obs,                 \* trace: what the last Tick read and computed
    begun,               \* game: BeginPlay of the game mode has run
    CurrentState,        \* game mode: ELesson_1PlayState
    SpawnVolumeActors,   \* game mode: the spawn volumes found at BeginPlay
    bSpawningEnabled,    \* spawn volumes: the flag of each volume
    PowerLevel,          \* character: power, in hundredths
    batteries,           \* battery pickups: the state of each battery
    overlapping,         \* world: batteries overlapping the CollectionSphere
    gstep,               \* trace: what the last step of the game was
    powerUp              \* trace: arguments of the PowerUp calls of the last step

ctl == <<bDeliveringOrder, CurrentOrderNumber, CurrentDestination, terribleStatus>>
world == <<Orders, dist, timeLeft, PizzaAmount, moveTarget>>
trace == <<branch, calls, pre, obs>>
game == <<begun, CurrentState, SpawnVolumeActors, bSpawningEnabled, PowerLevel,
          batteries, overlapping, gstep, powerUp>>
controller == <<bDeliveringOrder, CurrentOrderNumber, CurrentDestination, terribleStatus,
                Orders, dist, timeLeft, PizzaAmount, moveTarget, branch, calls, pre, obs>>
vars == <<controller, game>>

AgentState ==
    [bDeliveringOrder |-> bDeliveringOrder, CurrentOrderNumber |-> CurrentOrderNumber,
     CurrentDestination |-> CurrentDestination, terribleStatus |-> terribleStatus]

NoObs ==
    [Orders |-> << >>, Distance |-> 0, PizzaAmount |-> 0, closestOrder |-> 0,
     terribleOrder |-> 0, escalated |-> FALSE, selected |-> 0,
     bGrabbedPizza |-> FALSE, bDeliveredOrder |-> FALSE]

(* ------------------------- World Query Facade -------------------------- *)
GetDistanceToDestination(p) == dist[p]

GetHouseTimeLeft(h) == timeLeft[h]

GetCharacterMaxSpeed == MaxSpeed

WaitsHousePizzaDelivery(ords, h) == \E i \in 1 .. Len(ords) : ords[i].HouseNumber = h

(* ----------------------------- facade calls ---------------------------- *)
SetNewMoveDestination(p) == [op |-> "SetNewMoveDestination", arg |-> p]
TryGrabPizza == [op |-> "TryGrabPizza", arg |-> 0]
TryDeliverPizza(n) == [op |-> "TryDeliverPizza", arg |-> n]

(* ------------------------------ selection ------------------------------ *)
\* line 58: strict comparison keeps the first of equally close orders
CloserMut(currentDistance, closestDistance) == currentDistance <= closestDistance
Closer(currentDistance, closestDistance) == currentDistance < closestDistance

\* line 68: strict comparison keeps the first of equally urgent orders
MoreBurning(currentTime, burnestTime) == currentTime < burnestTime

\* lines 54-62; indices are 1-based here, 0-based in the source
RECURSIVE ClosestScan(_, _, _, _)
ClosestScan(ords, i, closestOrder, closestDistance) ==
    IF i > Len(ords) THEN closestOrder
    ELSE LET currentDistance == GetDistanceToDestination(HouseLocations[ords[i].HouseNumber])
         IN  IF Closer(currentDistance, closestDistance)
             THEN ClosestScan(ords, i + 1, i, currentDistance)
             ELSE ClosestScan(ords, i + 1, closestOrder, closestDistance)

ClosestOrder(ords) ==
    ClosestScan(ords, 1, 1, GetDistanceToDestination(HouseLocations[ords[1].HouseNumber]))

\* lines 64-72: the result is the pair <<terribleOrder, burnestTime>>
RECURSIVE TerribleScan(_, _, _, _)
TerribleScan(ords, i, terribleOrder, burnestTime) ==
    IF i > Len(ords) THEN <<terribleOrder, burnestTime>>
    ELSE LET currentTime == GetHouseTimeLeft(ords[i].HouseNumber)
         IN  IF MoreBurning(currentTime, burnestTime)
             THEN TerribleScan(ords, i + 1, i, currentTime)
             ELSE TerribleScan(ords, i + 1, terribleOrder, burnestTime)

TerribleOrder(ords) == TerribleScan(ords, 1, 1, GetHouseTimeLeft(ords[1].HouseNumber))[1]

BurnestTime(ords) == TerribleScan(ords, 1, 1, GetHouseTimeLeft(ords[1].HouseNumber))[2]

\* line 76, left conjunct: burnestTime - distance / maxSpeed < 5.0, with both
\* sides multiplied by the (positive) max speed
BurnsSoonMut(burnestTime, distance) ==
    burnestTime * GetCharacterMaxSpeed - distance > BurnMargin * GetCharacterMaxSpeed
BurnsSoon(burnestTime, distance) ==
    burnestTime * GetCharacterMaxSpeed - distance < BurnMargin * GetCharacterMaxSpeed

EscalatesMut(ords, status) ==
    BurnsSoon(BurnestTime(ords),
              GetDistanceToDestination(HouseLocations[ords[TerribleOrder(ords)].HouseNumber]))

\* line 76: the whole condition of the if
Escalates(ords, status) ==
    /\ BurnsSoon(BurnestTime(ords),
                 GetDistanceToDestination(HouseLocations[ords[TerribleOrder(ords)].HouseNumber]))
    /\ status # 2

(* ------------------------- the battery game: data ---------------------- *)
\* powers are counted in hundredths: 0.05 is 5, 150.0 is 15000, 2000.0 is 200000
PowerThreshold == 5
BatteryPowerLevel == 15000
CharacterPowerLevel == 200000

Volumes == {1, 2}
Batteries == 1 .. MaxBatteries
PlayStates == {"EPlaying", "EGameOver", "EUnknown"}
\* the PowerLevel a battery placed or spawned in the level can have: the
\* constructor's default, or a value set on the blueprint (the property is
\* EditAnywhere), zero or negative
BatteryPowerVals == {0 - BatteryPowerLevel, 0, BatteryPowerLevel}
\* the values the decay of the character's power is followed through
PowerSamples == {0, 5, 6, 100}

\* a battery that does not exist (yet)
NoBattery == [spawned |-> FALSE, bIsActive |-> FALSE, pendingKill |-> FALSE, PowerLevel |-> 0]

\* the controller as constructed, in a world with no order
ControllerOff ==
    /\ bDeliveringOrder = FALSE
    /\ CurrentOrderNumber = NoOrder
    /\ CurrentDestination = ZeroVector
    /\ terribleStatus = 0
    /\ Orders = << >>
    /\ dist = [p \in Points |-> 500]
    /\ timeLeft = [h \in Houses |-> FullTime]
    /\ PizzaAmount = 0
    /\ moveTarget = ZeroVector
    /\ branch = "init"
    /\ calls = << >>
    /\ pre = AgentState
    /\ obs = NoObs

\* the game before it is played
GameOff ==
    /\ begun = FALSE
    /\ CurrentState = "EUnknown"
    /\ SpawnVolumeActors = {}
    /\ bSpawningEnabled = [v \in Volumes |-> FALSE]
    /\ PowerLevel = CharacterPowerLevel
    /\ batteries = [b \in Batteries |-> NoBattery]
    /\ overlapping = {}
    /\ gstep = "init"
    /\ powerUp = << >>

(* ------------------------------- Init ---------------------------------- *)
Init ==
    /\ GameOff
    /\ bDeliveringOrder = FALSE
    /\ CurrentOrderNumber = NoOrder
    /\ CurrentDestination = ZeroVector
    /\ terribleStatus = 0
    /\ Orders = << >>
    /\ dist \in [Points -> DistVals]
    /\ timeLeft = [h \in Houses |-> FullTime]
    /\ PizzaAmount = 0
    /\ moveTarget = ZeroVector
    /\ branch = "init"
    /\ calls = << >>
    /\ pre = AgentState
    /\ obs = NoObs

(* ------------------------------ the world ------------------------------ *)
PendingNumbers(ords) == {ords[i].OrderNumber : i \in 1 .. Len(ords)}

RemoveAt(ords, i) == SubSeq(ords, 1, i - 1) \o SubSeq(ords, i + 1, Len(ords))

\* the pending list without the order numbered n
RECURSIVE WithoutOrder(_, _)
WithoutOrder(ords, n) ==
    IF ords = << >> THEN << >>
    ELSE IF Head(ords).OrderNumber = n THEN WithoutOrder(Tail(ords), n)
    ELSE <<Head(ords)>> \o WithoutOrder(Tail(ords), n)

\* the countdowns once the pending list is ords: a house that no longer
\* waits shows the full time again
Countdowns(ords) ==
    [h \in Houses |-> IF WaitsHousePizzaDelivery(ords, h) THEN timeLeft[h] ELSE FullTime]

\* results TryDeliverPizza(n) can give: a delivery succeeds only for an order
\* that is pending while a pizza is held; it can always fail
DeliverOutcomes(n) ==
    IF n \in PendingNumbers(Orders) /\ PizzaAmount > 0 THEN BOOLEAN ELSE {FALSE}

\* the number given to a new order: the least one that no pending order and
\* no order being delivered has
FreshNumber ==
    CHOOSE n \in OrderNumbers \ (PendingNumbers(Orders) \cup {CurrentOrderNumber}) :
        \A m \in OrderNumbers \ (PendingNumbers(Orders) \cup {CurrentOrderNumber}) : n <= m

\* a house places an order
NewOrder ==
    /\ UNCHANGED game
    /\ Len(Orders) < MaxOrders
    /\ \E h \in Houses, t \in TimeVals :
          /\ Orders' = Append(Orders, [OrderNumber |-> FreshNumber, HouseNumber |-> h])
          /\ timeLeft' = IF WaitsHousePizzaDelivery(Orders, h) THEN timeLeft
                         ELSE [timeLeft EXCEPT ![h] = t]
    /\ UNCHANGED <<ctl, dist, PizzaAmount, moveTarget>>
    /\ branch' = "world" /\ calls' = << >> /\ pre' = AgentState /\ obs' = NoObs

\* the game withdraws a pending order (its house stopped waiting)
OrderExpires ==
    /\ UNCHANGED game
    /\ \E i \in 1 .. Len(Orders) :
          /\ Orders' = RemoveAt(Orders, i)
          /\ timeLeft' = Countdowns(RemoveAt(Orders, i))
    /\ UNCHANGED <<ctl, dist, PizzaAmount, moveTarget>>
    /\ branch' = "world" /\ calls' = << >> /\ pre' = AgentState /\ obs' = NoObs

\* the countdown of a house goes down
Countdown ==
    /\ UNCHANGED game
    /\ \E h \in Houses, t \in TimeVals :
          /\ WaitsHousePizzaDelivery(Orders, h)
          /\ t < timeLeft[h]
          /\ timeLeft' = [timeLeft EXCEPT ![h] = t]
    /\ UNCHANGED <<ctl, Orders, dist, PizzaAmount, moveTarget>>
    /\ branch' = "world" /\ calls' = << >> /\ pre' = AgentState /\ obs' = NoObs

Nearer(d) == IF d = 500 THEN 300 ELSE 100

\* the character walks toward the point last given to SetNewMoveDestination:
\* it gets nearer to that point, the other distances change freely
AgentMoves ==
    /\ UNCHANGED game
    /\ moveTarget \in Points
    /\ \E d \in [Points -> DistVals] :
          /\ d[moveTarget] = Nearer(dist[moveTarget])
          /\ d # dist
          /\ dist' = d
    /\ UNCHANGED <<ctl, Orders, timeLeft, PizzaAmount, moveTarget>>
    /\ branch' = "world" /\ calls' = << >> /\ pre' = AgentState /\ obs' = NoObs

(* ------------------------- ASimpleAIController::Tick ------------------- *)
\* line 17
IsFarMut(Distance) == Distance < ArrivalRadius
IsFar(Distance) == Distance > ArrivalRadius

PromoteMut(status, Distance) ==
    IF status = 1 THEN 2 ELSE status

\* lines 21-23
Promote(status, Distance) ==
    IF status = 1 /\ Distance < ArrivalRadius THEN 2 ELSE status

SameDistanceWaitsMut(ords, Distance) ==
    \E i \in 1 .. Len(ords) : WaitsHousePizzaDelivery(ords, ords[i].HouseNumber)

\* lines 33-37: is some pending order's house waiting and at the measured distance
SameDistanceWaits(ords, Distance) ==
    \E i \in 1 .. Len(ords) :
        /\ WaitsHousePizzaDelivery(ords, ords[i].HouseNumber)
        /\ Distance = GetDistanceToDestination(HouseLocations[ords[i].HouseNumber])

\* lines 30-37
StatusAfterDeliveryMut(status, ords, Distance) ==
    IF SameDistanceWaits(ords, Distance) THEN 2 ELSE status
StatusAfterDelivery(status, ords, Distance) ==
    IF SameDistanceWaits(ords, Distance) THEN 2 ELSE 0

\* lines 15-20
TickEnRouteFar ==
    /\ UNCHANGED game
    /\ bDeliveringOrder
    /\ LET Distance == GetDistanceToDestination(CurrentDestination)
       IN  /\ IsFar(Distance)
           /\ moveTarget' = CurrentDestination
           /\ calls' = <<SetNewMoveDestination(CurrentDestination)>>
           /\ obs' = [NoObs EXCEPT !.Distance = Distance, !.Orders = Orders,
                                   !.PizzaAmount = PizzaAmount]
    /\ UNCHANGED <<ctl, Orders, dist, timeLeft, PizzaAmount>>
    /\ branch' = "enRouteFar" /\ pre' = AgentState

DeliverOkMut(Distance) ==
    LET remaining == WithoutOrder(Orders, CurrentOrderNumber)
    IN  /\ bDeliveringOrder' = FALSE
        /\ terribleStatus' = StatusAfterDelivery(Promote(terribleStatus, Distance),
                                                 remaining, Distance)
        /\ Orders' = remaining
        /\ timeLeft' = Countdowns(remaining)
        /\ PizzaAmount' = PizzaAmount - 1
        /\ calls' = <<TryDeliverPizza(CurrentOrderNumber)>>
        /\ UNCHANGED <<CurrentOrderNumber, CurrentDestination, moveTarget>>
        /\ branch' = "deliverOk"
        /\ obs' = [NoObs EXCEPT !.Distance = Distance, !.Orders = Orders,
                                !.PizzaAmount = PizzaAmount, !.bDeliveredOrder = TRUE]

DeliverOkMove(Distance) ==
    LET remaining == WithoutOrder(Orders, CurrentOrderNumber)
    IN  /\ bDeliveringOrder' = FALSE
        /\ CurrentOrderNumber' = NoOrder
        /\ terribleStatus' = StatusAfterDelivery(Promote(terribleStatus, Distance),
                                                 remaining, Distance)
        /\ Orders' = remaining
        /\ timeLeft' = Countdowns(remaining)
        /\ PizzaAmount' = PizzaAmount - 1
        /\ moveTarget' = CurrentDestination
        /\ calls' = <<TryDeliverPizza(CurrentOrderNumber),
                      SetNewMoveDestination(CurrentDestination)>>
        /\ UNCHANGED CurrentDestination
        /\ branch' = "deliverOk"
        /\ obs' = [NoObs EXCEPT !.Distance = Distance, !.Orders = Orders,
                                !.PizzaAmount = PizzaAmount, !.bDeliveredOrder = TRUE]

\* lines 26-37
DeliverOk(Distance) ==
    LET remaining == WithoutOrder(Orders, CurrentOrderNumber)
    IN  /\ bDeliveringOrder' = FALSE
        /\ CurrentOrderNumber' = NoOrder
        /\ terribleStatus' = StatusAfterDelivery(Promote(terribleStatus, Distance),
                                                 remaining, Distance)
        /\ Orders' = remaining
        /\ timeLeft' = Countdowns(remaining)
        /\ PizzaAmount' = PizzaAmount - 1
        /\ calls' = <<TryDeliverPizza(CurrentOrderNumber)>>
        /\ UNCHANGED <<CurrentDestination, moveTarget>>
        /\ branch' = "deliverOk"
        /\ obs' = [NoObs EXCEPT !.Distance = Distance, !.Orders = Orders,
                                !.PizzaAmount = PizzaAmount, !.bDeliveredOrder = TRUE]

DeliverFailNoMove(Distance) ==
    /\ terribleStatus' = Promote(terribleStatus, Distance)
    /\ calls' = <<TryDeliverPizza(CurrentOrderNumber)>>
    /\ UNCHANGED <<bDeliveringOrder, CurrentOrderNumber, CurrentDestination,
                   Orders, timeLeft, PizzaAmount, moveTarget>>
    /\ branch' = "deliverFail"
    /\ obs' = [NoObs EXCEPT !.Distance = Distance, !.Orders = Orders,
                            !.PizzaAmount = PizzaAmount]

DeliverFailReselect(Distance) ==
    LET Order == IF Orders # << >> /\ Escalates(Orders, 0)
                 THEN Orders[TerribleOrder(Orders)]
                 ELSE [OrderNumber |-> CurrentOrderNumber, HouseNumber |-> 0]
        Destination == IF Orders # << >> /\ Escalates(Orders, 0)
                       THEN HouseLocations[Order.HouseNumber]
                       ELSE CurrentDestination
    IN  /\ terribleStatus' = Promote(terribleStatus, Distance)
        /\ CurrentOrderNumber' = Order.OrderNumber
        /\ CurrentDestination' = Destination
        /\ moveTarget' = Destination
        /\ calls' = <<TryDeliverPizza(CurrentOrderNumber),
                      SetNewMoveDestination(Destination)>>
        /\ UNCHANGED <<bDeliveringOrder, Orders, timeLeft, PizzaAmount>>
        /\ branch' = "deliverFail"
        /\ obs' = [NoObs EXCEPT !.Distance = Distance, !.Orders = Orders,
                                !.PizzaAmount = PizzaAmount]

\* lines 39-41
DeliverFail(Distance) ==
    /\ terribleStatus' = Promote(terribleStatus, Distance)
    /\ moveTarget' = CurrentDestination
    /\ calls' = <<TryDeliverPizza(CurrentOrderNumber),
                  SetNewMoveDestination(CurrentDestination)>>
    /\ UNCHANGED <<bDeliveringOrder, CurrentOrderNumber, CurrentDestination,
                   Orders, timeLeft, PizzaAmount>>
    /\ branch' = "deliverFail"
    /\ obs' = [NoObs EXCEPT !.Distance = Distance, !.Orders = Orders,
                            !.PizzaAmount = PizzaAmount]

TickDeliverAnywhere ==
    /\ UNCHANGED game
    /\ bDeliveringOrder
    /\ LET Distance == GetDistanceToDestination(CurrentDestination)
       IN  \E bDeliveredOrder \in DeliverOutcomes(CurrentOrderNumber) :
                 IF bDeliveredOrder THEN DeliverOk(Distance) ELSE DeliverFail(Distance)
    /\ UNCHANGED dist
    /\ pre' = AgentState

\* lines 15-43, the agent is within the arrival radius
TickDeliver ==
    /\ UNCHANGED game
    /\ bDeliveringOrder
    /\ LET Distance == GetDistanceToDestination(CurrentDestination)
       IN  /\ ~IsFar(Distance)
           /\ \E bDeliveredOrder \in DeliverOutcomes(CurrentOrderNumber) :
                 IF bDeliveredOrder THEN DeliverOk(Distance) ELSE DeliverFail(Distance)
    /\ UNCHANGED dist
    /\ pre' = AgentState

TickNoOrdersMut ==
    /\ UNCHANGED game
    /\ ~bDeliveringOrder
    /\ Len(Orders) = 0
    /\ terribleStatus' = 0
    /\ UNCHANGED <<bDeliveringOrder, CurrentOrderNumber, CurrentDestination, world>>
    /\ branch' = "idleNoOrders" /\ calls' = << >> /\ pre' = AgentState /\ obs' = NoObs

\* lines 45-49
TickNoOrders ==
    /\ UNCHANGED game
    /\ ~bDeliveringOrder
    /\ Len(Orders) = 0
    /\ UNCHANGED <<ctl, world>>
    /\ branch' = "idleNoOrders" /\ calls' = << >> /\ pre' = AgentState /\ obs' = NoObs

SelectedOrderMut(ords, status) ==
    IF Escalates(ords, status) THEN ClosestOrder(ords) ELSE TerribleOrder(ords)

\* lines 74-79: index of the order taken
SelectedOrder(ords, status) ==
    IF Escalates(ords, status) THEN TerribleOrder(ords) ELSE ClosestOrder(ords)

StatusAfterSelectionMut(ords, status) ==
    IF Escalates(ords, status) THEN 1 ELSE 0

\* lines 76-79: the status after the escalation test
StatusAfterSelection(ords, status) ==
    IF Escalates(ords, status) THEN 1 ELSE status

\* what a selection tick read and computed (lines 45-79)
SelectionObs(bGrabbedPizza) ==
    [Orders |-> Orders, Distance |-> 0, PizzaAmount |-> PizzaAmount,
     closestOrder |-> ClosestOrder(Orders),
     terribleOrder |-> TerribleOrder(Orders),
     escalated |-> Escalates(Orders, terribleStatus),
     selected |-> SelectedOrder(Orders, terribleStatus),
     bGrabbedPizza |-> bGrabbedPizza, bDeliveredOrder |-> FALSE]

CommitFirstHouse(Order, grabCalls) ==
    /\ bDeliveringOrder' = TRUE
    /\ CurrentOrderNumber' = Order.OrderNumber
    /\ CurrentDestination' = HouseLocations[Orders[1].HouseNumber]
    /\ moveTarget' = HouseLocations[Orders[1].HouseNumber]
    /\ calls' = grabCalls \o <<SetNewMoveDestination(HouseLocations[Orders[1].HouseNumber])>>
    /\ branch' = "commit"
    /\ obs' = SelectionObs(grabCalls # << >>)

\* lines 90-94
Commit(Order, grabCalls) ==
    /\ bDeliveringOrder' = TRUE
    /\ CurrentOrderNumber' = Order.OrderNumber
    /\ CurrentDestination' = HouseLocations[Order.HouseNumber]
    /\ moveTarget' = HouseLocations[Order.HouseNumber]
    /\ calls' = grabCalls \o <<SetNewMoveDestination(HouseLocations[Order.HouseNumber])>>
    /\ branch' = "commit"
    /\ obs' = SelectionObs(grabCalls # << >>)

PickupFailMove ==
    /\ calls' = <<TryGrabPizza, SetNewMoveDestination(CurrentDestination)>>
    /\ moveTarget' = CurrentDestination
    /\ UNCHANGED <<bDeliveringOrder, CurrentOrderNumber, CurrentDestination, PizzaAmount>>
    /\ branch' = "pickupFail"
    /\ obs' = SelectionObs(FALSE)

PickupFailMut ==
    /\ calls' = <<TryGrabPizza>>
    /\ bDeliveringOrder' = TRUE
    /\ UNCHANGED <<CurrentOrderNumber, CurrentDestination, moveTarget, PizzaAmount>>
    /\ branch' = "pickupFail"
    /\ obs' = SelectionObs(FALSE)

\* lines 85-87
PickupFail ==
    /\ calls' = <<TryGrabPizza>>
    /\ UNCHANGED <<bDeliveringOrder, CurrentOrderNumber, CurrentDestination,
                   moveTarget, PizzaAmount>>
    /\ branch' = "pickupFail"
    /\ obs' = SelectionObs(FALSE)

\* lines 45-95, there are orders to serve
TickSelect ==
    /\ UNCHANGED game
    /\ ~bDeliveringOrder
    /\ Len(Orders) # 0
    /\ LET Order == Orders[SelectedOrder(Orders, terribleStatus)]
       IN  /\ terribleStatus' = StatusAfterSelection(Orders, terribleStatus)
           /\ IF PizzaAmount = 0
              THEN \E bGrabbedPizza \in BOOLEAN :
                      IF bGrabbedPizza
                      THEN /\ PizzaAmount' = MaxPizza
                           /\ Commit(Order, <<TryGrabPizza>>)
                      ELSE PickupFail
              ELSE /\ UNCHANGED PizzaAmount
                   /\ Commit(Order, << >>)
    /\ UNCHANGED <<Orders, dist, timeLeft>>
    /\ pre' = AgentState

\* lines 13-96
Tick == TickEnRouteFar \/ TickDeliver \/ TickNoOrders \/ TickSelect

Next ==
    \/ Tick
    \/ NewOrder
    \/ OrderExpires
    \/ Countdown
    \/ AgentMoves

Spec == Init /\ [][Next]_vars

\* a tick whose TryDeliverPizza returns true (lines 25-37)
TickDelivers == TickDeliver /\ ~bDeliveringOrder'

\* the fair world: ticks keep occurring, the character keeps walking toward
\* the point given to SetNewMoveDestination, and TryDeliverPizza does not
\* fail forever while it can succeed
Fairness ==
    /\ WF_vars(Tick)
    /\ WF_vars(AgentMoves)
    /\ WF_vars(TickDelivers)

\* a house places an order while fewer than MaxLiveOrders are pending
LiveNewOrder == Len(Orders) < MaxLiveOrders /\ NewOrder

LiveNext ==
    \/ Tick
    \/ LiveNewOrder
    \/ OrderExpires
    \/ Countdown
    \/ AgentMoves

LiveSpec == Init /\ [][LiveNext]_vars /\ Fairness

TypeOK ==
    /\ bDeliveringOrder \in BOOLEAN
    /\ CurrentOrderNumber \in OrderNumbers \cup {NoOrder}
    /\ CurrentDestination \in Points \cup {ZeroVector}
    /\ terribleStatus \in {0, 1, 2}
    /\ Len(Orders) <= MaxOrders
    /\ PizzaAmount \in 0 .. MaxPizza
    /\ bDeliveringOrder => CurrentDestination \in Points

(* ======================================================================= *)
(* The battery game (Lesson_1)                                             *)
(* ======================================================================= *)
\* The constructors shown set neither CurrentState nor bSpawningEnabled:
\* both start with any value.
GameInit ==
    /\ ControllerOff
    /\ begun = FALSE
    /\ CurrentState \in PlayStates
    /\ SpawnVolumeActors = {}
    /\ bSpawningEnabled \in [Volumes -> BOOLEAN]
    /\ PowerLevel = CharacterPowerLevel
    /\ batteries = [b \in Batteries |-> NoBattery]
    /\ overlapping = {}
    /\ gstep = "init"
    /\ powerUp = << >>

\* ASpawnVolume::EnableSpawning and DisableSpawning, on the volumes vs
SetSpawning(vs, enabled) ==
    [v \in Volumes |-> IF v \in vs THEN enabled ELSE bSpawningEnabled[v]]

HandleNewStateMut(NewState, volumes) ==
    bSpawningEnabled' =
        IF NewState = "EPlaying" THEN SetSpawning(volumes, TRUE) ELSE bSpawningEnabled

\* ALesson_1GameMode::HandleNewState, volumes being SpawnVolumeActors
HandleNewState(NewState, volumes) ==
    bSpawningEnabled' =
        IF NewState = "EPlaying" THEN SetSpawning(volumes, TRUE)
        ELSE IF NewState = "EGameOver" THEN SetSpawning(volumes, FALSE)
        ELSE bSpawningEnabled

\* ALesson_1GameMode::SetCurrentState
SetCurrentState(NewState, volumes) ==
    /\ CurrentState' = NewState
    /\ HandleNewState(NewState, volumes)

\* ALesson_1GameMode::BeginPlay: every spawn volume of the level is found
BeginPlay ==
    /\ ~begun
    /\ begun' = TRUE
    /\ SpawnVolumeActors' = Volumes
    /\ SetCurrentState("EPlaying", Volumes)
    /\ gstep' = "beginPlay"
    /\ powerUp' = << >>
    /\ UNCHANGED <<PowerLevel, batteries, overlapping, controller>>

\* FMath::FInterpTo(PowerLevel, 0, DeltaSeconds, DecayRate): some value
\* between 0 and the current one, depending on DeltaSeconds
Decayed(power) == {v \in PowerSamples : v < power}

\* the test of ALesson_1GameMode::Tick
IsPowerLeft(power) == power > PowerThreshold

\* ALesson_1GameMode::Tick
GameModeTick ==
    /\ begun
    /\ IF IsPowerLeft(PowerLevel)
       THEN /\ PowerLevel' \in Decayed(PowerLevel)
            /\ UNCHANGED <<CurrentState, bSpawningEnabled>>
            /\ gstep' = "decay"
       ELSE /\ SetCurrentState("EGameOver", SpawnVolumeActors)
            /\ UNCHANGED PowerLevel
            /\ gstep' = "gameOver"
    /\ powerUp' = << >>
    /\ UNCHANGED <<begun, SpawnVolumeActors, batteries, overlapping, controller>>

Unspawned == {b \in Batteries : ~batteries[b].spawned}

\* the next battery to come into the level
NextBattery == CHOOSE b \in Unspawned : \A c \in Unspawned : b <= c

\* ASpawnVolume::SpawnPickup: a battery appears at a random point, inside the
\* CollectionSphere or not
SpawnPickup ==
    \E power \in BatteryPowerVals, inSphere \in BOOLEAN :
        /\ batteries' = [batteries EXCEPT ![NextBattery] =
               [spawned |-> TRUE, bIsActive |-> TRUE, pendingKill |-> FALSE,
                PowerLevel |-> power]]
        /\ overlapping' = IF inSphere THEN overlapping \cup {NextBattery} ELSE overlapping

\* ASpawnVolume::Tick of volume v; whether SpawnTime has passed SpawnDelay
\* depends on the frame times and on the random delay
SpawnVolumeTick(v) ==
    /\ begun
    /\ IF ~bSpawningEnabled[v]
       THEN UNCHANGED <<batteries, overlapping>> /\ gstep' = "volumeOff"
       ELSE \E bShouldSpawn \in BOOLEAN :
               IF bShouldSpawn /\ Unspawned # {}
               THEN SpawnPickup /\ gstep' = "spawn"
               ELSE UNCHANGED <<batteries, overlapping>> /\ gstep' = "volumeWait"
    /\ powerUp' = << >>
    /\ UNCHANGED <<begun, CurrentState, SpawnVolumeActors, bSpawningEnabled, PowerLevel,
                   controller>>

\* the test of the loop of ALesson_1Character::CollectBatteries
IsCollectable(b) ==
    /\ batteries[b].spawned
    /\ ~batteries[b].pendingKill
    /\ batteries[b].bIsActive

RECURSIVE SumPower(_)
SumPower(bs) ==
    IF bs = {} THEN 0
    ELSE LET b == CHOOSE x \in bs : TRUE
         IN  batteries[b].PowerLevel + SumPower(bs \ {b})

PickedUpMut(bs) ==
    [b \in Batteries |->
        IF b \in bs THEN [batteries[b] EXCEPT !.bIsActive = TRUE, !.pendingKill = FALSE]
        ELSE batteries[b]]

\* the loop of CollectBatteries with ABatteryPickup::OnPickedUp_Implementation:
\* each battery found is deactivated and destroyed
PickedUp(bs) ==
    [b \in Batteries |->
        IF b \in bs THEN [batteries[b] EXCEPT !.bIsActive = FALSE, !.pendingKill = TRUE]
        ELSE batteries[b]]

CollectBatteriesMut ==
    /\ begun
    /\ LET found == {b \in overlapping : IsCollectable(b)}
           BatteryPower == SumPower(found)
       IN  /\ batteries' = PickedUp(found)
           /\ IF BatteryPower > 0
              THEN PowerLevel' = PowerLevel + BatteryPower /\ powerUp' = <<BatteryPower>>
              ELSE UNCHANGED PowerLevel /\ powerUp' = << >>
    /\ gstep' = "collect"
    /\ UNCHANGED <<begun, CurrentState, SpawnVolumeActors, bSpawningEnabled, overlapping,
                   controller>>

\* ALesson_1Character::CollectBatteries
CollectBatteries ==
    /\ begun
    /\ IF CurrentState = "EGameOver"
       THEN UNCHANGED <<PowerLevel, batteries>> /\ powerUp' = << >>
       ELSE LET found == {b \in overlapping : IsCollectable(b)}
                BatteryPower == SumPower(found)
            IN  /\ batteries' = PickedUp(found)
                /\ IF BatteryPower > 0
                   THEN PowerLevel' = PowerLevel + BatteryPower /\ powerUp' = <<BatteryPower>>
                   ELSE UNCHANGED PowerLevel /\ powerUp' = << >>
    /\ gstep' = "collect"
    /\ UNCHANGED <<begun, CurrentState, SpawnVolumeActors, bSpawningEnabled, overlapping,
                   controller>>

\* the character walks: other batteries overlap its CollectionSphere
CharacterMoves ==
    /\ begun
    /\ \E bs \in SUBSET {b \in Batteries : batteries[b].spawned} :
          /\ bs # overlapping
          /\ overlapping' = bs
    /\ gstep' = "world"
    /\ powerUp' = << >>
    /\ UNCHANGED <<begun, CurrentState, SpawnVolumeActors, bSpawningEnabled, PowerLevel,
                   batteries, controller>>

\* the level destroys a battery nobody collected
BatteryDestroyed ==
    /\ begun
    /\ \E b \in Batteries :
          /\ batteries[b].spawned
          /\ ~batteries[b].pendingKill
          /\ batteries' = [batteries EXCEPT ![b].pendingKill = TRUE]
    /\ gstep' = "world"
    /\ powerUp' = << >>
    /\ UNCHANGED <<begun, CurrentState, SpawnVolumeActors, bSpawningEnabled, PowerLevel,
                   overlapping, controller>>

GameNext ==
    \/ BeginPlay
    \/ GameModeTick
    \/ \E v \in Volumes : SpawnVolumeTick(v)
    \/ CollectBatteries
    \/ CharacterMoves
    \/ BatteryDestroyed

GameSpec == GameInit /\ [][GameNext]_vars

GameTypeOK ==
    /\ begun \in BOOLEAN
    /\ CurrentState \in PlayStates
    /\ SpawnVolumeActors \subseteq Volumes
    /\ bSpawningEnabled \in [Volumes -> BOOLEAN]
    /\ PowerLevel >= 0
    /\ overlapping \subseteq Batteries

(* ======================================================================= *)
(* Properties                                                              *)
(* ======================================================================= *)
IsTick == branch \notin {"init", "world"}

IdleTick == IsTick /\ ~pre.bDeliveringOrder

EnRouteTick == IsTick /\ pre.bDeliveringOrder

\* k is the lowest index among the indices 1..n at which f is minimal
IsFirstMin(f, n, k) ==
    /\ k \in 1 .. n
    /\ \A j \in 1 .. n : f[k] <= f[j]
    /\ \A j \in 1 .. (k - 1) : f[j] > f[k]

DistanceOf(ords) ==
    [i \in 1 .. Len(ords) |-> dist[HouseLocations[ords[i].HouseNumber]]]

DeadlineOf(ords) == [i \in 1 .. Len(ords) |-> timeLeft[ords[i].HouseNumber]]

\* order i of ords has the least deadline and would burn before the margin:
\* deadline - distance / maxSpeed < 5
QualifiesUrgent(ords, i) ==
    /\ \A j \in 1 .. Len(ords) : DeadlineOf(ords)[i] <= DeadlineOf(ords)[j]
    /\ DeadlineOf(ords)[i] * MaxSpeed - DistanceOf(ords)[i] < BurnMargin * MaxSpeed

C2_Original == terribleStatus # 0 => bDeliveringOrder

\* C2 (amended): when a tick ends Idle with an urgency other than Normal,
\* either the tick delivered and a still-pending waiting order is at the
\* measured distance (Committed), or it was a selection tick whose escalation
\* test passed and whose pickup failed (Flagged), or it was an Idle tick that
\* did not commit and carried the urgency it started with.  A delivery with
\* no still-pending order at the measured distance ends with Normal.
C2_IdleUrgency ==
    (IsTick /\ ~bDeliveringOrder /\ terribleStatus # 0) =>
        \/ /\ branch = "deliverOk"
           /\ terribleStatus = 2
           /\ \E i \in 1 .. Len(Orders) : DistanceOf(Orders)[i] = obs.Distance
        \/ /\ ~pre.bDeliveringOrder
           /\ obs.Orders # << >>
           /\ obs.escalated
           /\ terribleStatus = 1
        \/ /\ ~pre.bDeliveringOrder
           /\ terribleStatus = pre.terribleStatus

C2_Witness ==
    /\ branch = "pickupFail"
    /\ ~bDeliveringOrder
    /\ pre.terribleStatus = 0
    /\ terribleStatus = 1

\* ------------------------------------------------------------------ C3 --
\* C3: a tick that starts Idle with no pending order issues no facade call
\* and leaves the controller state unchanged, whatever the urgency was.
C3_IdleNoOp ==
    (IdleTick /\ obs.Orders = << >>) =>
        /\ calls = << >>
        /\ AgentState = pre

C3_Witness ==
    /\ branch = "idleNoOrders"
    /\ pre.terribleStatus = 2
    /\ terribleStatus = 2
    /\ calls = << >>

\* ------------------------------------------------------------------ C4 --
\* C4 as stated: in a selection tick where the most urgent order burns soon
\* and is not the closest one, the most urgent order is selected (and is the
\* one committed to) and the urgency becomes Flagged.
C4_Original ==
    (/\ IdleTick
     /\ obs.Orders # << >>
     /\ obs.closestOrder # obs.terribleOrder
     /\ QualifiesUrgent(obs.Orders, obs.terribleOrder)) =>
        /\ obs.selected = obs.terribleOrder
        /\ terribleStatus = 1
        /\ bDeliveringOrder =>
              /\ CurrentOrderNumber = obs.Orders[obs.terribleOrder].OrderNumber
              /\ CurrentDestination = HouseLocations[obs.Orders[obs.terribleOrder].HouseNumber]

\* C4 (amended): the same, provided the urgency is not Committed when the
\* tick starts; the selected order becomes the active one when a pizza is
\* held or the pickup succeeds.
C4_Escalation ==
    (/\ IdleTick
     /\ obs.Orders # << >>
     /\ pre.terribleStatus # 2
     /\ obs.closestOrder # obs.terribleOrder
     /\ QualifiesUrgent(obs.Orders, obs.terribleOrder)) =>
        /\ obs.selected = obs.terribleOrder
        /\ terribleStatus = 1
        /\ bDeliveringOrder <=> (obs.PizzaAmount > 0 \/ obs.bGrabbedPizza)
        /\ bDeliveringOrder =>
              /\ CurrentOrderNumber = obs.Orders[obs.terribleOrder].OrderNumber
              /\ CurrentDestination = HouseLocations[obs.Orders[obs.terribleOrder].HouseNumber]

C4_Witness ==
    /\ branch = "commit"
    /\ pre.terribleStatus # 2
    /\ obs.closestOrder # obs.terribleOrder
    /\ QualifiesUrgent(obs.Orders, obs.terribleOrder)
    /\ terribleStatus = 1
    /\ CurrentOrderNumber = obs.Orders[obs.terribleOrder].OrderNumber

\* ------------------------------------------------------------------ C5 --
\* C5: in a selection tick the closest order is the lowest-indexed order of
\* minimal distance and the most urgent order is the lowest-indexed order of
\* minimal deadline.
C5_TieBreak ==
    (IdleTick /\ obs.Orders # << >>) =>
        /\ IsFirstMin(DistanceOf(obs.Orders), Len(obs.Orders), obs.closestOrder)
        /\ IsFirstMin(DeadlineOf(obs.Orders), Len(obs.Orders), obs.terribleOrder)

C5_Witness ==
    /\ IdleTick
    /\ Len(obs.Orders) = 2
    /\ obs.Orders[1].HouseNumber # obs.Orders[2].HouseNumber
    /\ DistanceOf(obs.Orders)[1] = DistanceOf(obs.Orders)[2]
    /\ DeadlineOf(obs.Orders)[1] = DeadlineOf(obs.Orders)[2]
    /\ obs.closestOrder = 1
    /\ obs.terribleOrder = 1

\* ------------------------------------------------------------------ C6 --
\* C6: a tick that starts delivering with the urgency Committed while another
\* pending order passes the escalation test, and that does not deliver,
\* keeps the active order, the destination and the phase.
OtherOrderQualifies ==
    \E i \in 1 .. Len(obs.Orders) :
        /\ obs.Orders[i].OrderNumber # pre.CurrentOrderNumber
        /\ QualifiesUrgent(obs.Orders, i)

C6_NoReescalation ==
    (/\ EnRouteTick
     /\ pre.terribleStatus = 2
     /\ OtherOrderQualifies
     /\ ~obs.bDeliveredOrder) =>
        /\ bDeliveringOrder
        /\ CurrentOrderNumber = pre.CurrentOrderNumber
        /\ CurrentDestination = pre.CurrentDestination
        /\ terribleStatus = 2

C6_Witness ==
    /\ branch = "deliverFail"
    /\ pre.terribleStatus = 2
    /\ OtherOrderQualifies
    /\ CurrentOrderNumber = pre.CurrentOrderNumber
    /\ CurrentOrderNumber \in PendingNumbers(obs.Orders)

\* ------------------------------------------------------------------ C7 --
\* C7: a selection tick that holds no pizza and whose TryGrabPizza fails
\* stays Idle: no order and no destination is taken and no move is issued.
GrabFailed ==
    /\ IdleTick
    /\ obs.Orders # << >>
    /\ obs.PizzaAmount = 0
    /\ ~obs.bGrabbedPizza

C7_CargoGating ==
    GrabFailed =>
        /\ ~bDeliveringOrder
        /\ CurrentOrderNumber = NoOrder
        /\ CurrentDestination = pre.CurrentDestination
        /\ calls = <<TryGrabPizza>>

C7_Witness ==
    /\ GrabFailed
    /\ Len(obs.Orders) = 2
    /\ obs.escalated
    /\ ~bDeliveringOrder

\* ------------------------------------------------------------------ C8 --
\* C8: a delivering tick farther than 300 from the destination issues exactly
\* one call, the move to the destination, and leaves the controller state
\* unchanged.
C8_MovementRetry ==
    (EnRouteTick /\ obs.Distance > 300) =>
        /\ calls = <<SetNewMoveDestination(pre.CurrentDestination)>>
        /\ moveTarget = pre.CurrentDestination
        /\ AgentState = pre

C8_Witness ==
    /\ EnRouteTick
    /\ obs.Distance = 500
    /\ pre.terribleStatus = 1
    /\ calls = <<SetNewMoveDestination(CurrentDestination)>>

\* ------------------------------------------------------------------ C9 --
\* C9: a delivering tick within 300 of the destination whose TryDeliverPizza
\* fails stays delivering the same order to the same destination and issues
\* the move to the destination again.
C9_DeliveryRetry ==
    (EnRouteTick /\ obs.Distance <= 300 /\ ~obs.bDeliveredOrder) =>
        /\ bDeliveringOrder
        /\ CurrentOrderNumber = pre.CurrentOrderNumber
        /\ CurrentDestination = pre.CurrentDestination
        /\ calls = <<TryDeliverPizza(pre.CurrentOrderNumber),
                     SetNewMoveDestination(pre.CurrentDestination)>>
        /\ moveTarget = pre.CurrentDestination

C9_Witness ==
    /\ EnRouteTick
    /\ obs.Distance = 300
    /\ ~obs.bDeliveredOrder
    /\ bDeliveringOrder
    /\ Len(calls) = 2

\* ----------------------------------------------------------------- C10 --
NoOrderAtMeasuredDistance ==
    \A i \in 1 .. Len(Orders) : DistanceOf(Orders)[i] # obs.Distance

C11_Original == IsTick => Len(calls) <= 1

\* C11 (amended): every tick issues at most two facade calls, at most one of
\* TryGrabPizza and TryDeliverPizza followed by at most one
\* SetNewMoveDestination; it issues two exactly when a delivery attempt within
\* the radius fails or when a pickup succeeds, and none exactly when it
\* starts Idle with no pending order.
C11_CallsPerTick ==
    IsTick =>
        /\ Len(calls) <= 2
        /\ Len(calls) = 2 =>
              /\ calls[1].op \in {"TryGrabPizza", "TryDeliverPizza"}
              /\ calls[2].op = "SetNewMoveDestination"
        /\ Len(calls) = 2 <=>
              \/ EnRouteTick /\ obs.Distance <= 300 /\ ~obs.bDeliveredOrder
              \/ IdleTick /\ obs.Orders # << >> /\ obs.PizzaAmount = 0 /\ obs.bGrabbedPizza
        /\ Len(calls) = 0 <=> (IdleTick /\ obs.Orders = << >>)

C11_Witness ==
    /\ branch = "commit"
    /\ obs.PizzaAmount = 0
    /\ obs.bGrabbedPizza
    /\ calls = <<TryGrabPizza, SetNewMoveDestination(CurrentDestination)>>

\* ----------------------------------------------------------------- C15 --
\* the escalation test of a selection tick, on what the tick read
EscalationPasses ==
    /\ QualifiesUrgent(obs.Orders, obs.terribleOrder)
    /\ pre.terribleStatus # 2

\* C15 as stated: a selection tick whose escalation test fails, or that
\* starts Committed, selects the closest order and ends with urgency Normal.
C15_Original ==
    (IdleTick /\ obs.Orders # << >> /\ ~EscalationPasses) =>
        /\ obs.selected = obs.closestOrder
        /\ terribleStatus = 0

\* C15 (amended): such a tick selects the closest order and leaves the
\* urgency as it was when the tick started.
C15_ClosestSelected ==
    (IdleTick /\ obs.Orders # << >> /\ ~EscalationPasses) =>
        /\ obs.selected = obs.closestOrder
        /\ terribleStatus = pre.terribleStatus
        /\ bDeliveringOrder =>
              CurrentOrderNumber = obs.Orders[obs.closestOrder].OrderNumber

C15_Witness ==
    /\ branch = "commit"
    /\ pre.terribleStatus = 2
    /\ QualifiesUrgent(obs.Orders, obs.terribleOrder)
    /\ obs.closestOrder # obs.terribleOrder
    /\ CurrentOrderNumber = obs.Orders[obs.closestOrder].OrderNumber
    /\ terribleStatus = 2

\* ----------------------------------------------------------------- C16 --
\* C16 as stated: a selection tick whose pickup fails leaves the whole
\* controller state, the urgency included, as it was.
C16_Original == GrabFailed => AgentState = pre

\* C16 (amended): such a tick leaves the phase, the active order and the
\* destination as they were; the urgency becomes Flagged when the escalation
\* test passed and is unchanged otherwise.
C16_PickupFailState ==
    GrabFailed =>
        /\ bDeliveringOrder = pre.bDeliveringOrder
        /\ CurrentOrderNumber = pre.CurrentOrderNumber
        /\ CurrentDestination = pre.CurrentDestination
        /\ terribleStatus = IF EscalationPasses THEN 1 ELSE pre.terribleStatus

C16_Witness ==
    /\ GrabFailed
    /\ Len(obs.Orders) = 1
    /\ EscalationPasses
    /\ pre.terribleStatus = 0
    /\ terribleStatus = 1

\* ----------------------------------------------------------------- C17 --
\* C17: a delivering tick within 300 of the destination (300 included) that
\* starts Flagged promotes the urgency to Committed, and the urgency stays
\* Committed when the delivery attempt fails.
C17_Claim ==
    (EnRouteTick /\ obs.Distance <= 300 /\ pre.terribleStatus = 1
        /\ ~obs.bDeliveredOrder) =>
        terribleStatus = 2

\* ----------------------------------------------------------------- C18 --
\* a still-pending order other than the delivered one waits at the distance
\* measured by the tick
OtherOrderAtMeasuredDistance ==
    \E i \in 1 .. Len(Orders) :
        /\ Orders[i].OrderNumber # pre.CurrentOrderNumber
        /\ \E j \in 1 .. Len(Orders) : Orders[j].HouseNumber = Orders[i].HouseNumber
        /\ DistanceOf(Orders)[i] = obs.Distance

\* C18: after a successful delivery the urgency is Committed iff a
\* still-pending order other than the delivered one waits at the measured
\* distance, and Normal otherwise.
C18_Recommit ==
    (EnRouteTick /\ obs.bDeliveredOrder) =>
        /\ terribleStatus = 2 <=> OtherOrderAtMeasuredDistance
        /\ terribleStatus = 0 <=> ~OtherOrderAtMeasuredDistance

C18_Witness ==
    /\ EnRouteTick
    /\ obs.bDeliveredOrder
    /\ pre.terribleStatus = 0
    /\ Len(Orders) = 1
    /\ HouseLocations[Orders[1].HouseNumber] # CurrentDestination
    /\ OtherOrderAtMeasuredDistance
    /\ terribleStatus = 2

\* ----------------------------------------------------------------- C19 --
\* the order a selection tick has to take, on what the tick read
ExpectedOrder ==
    obs.Orders[IF EscalationPasses THEN obs.terribleOrder ELSE obs.closestOrder]

\* C19: a selection tick that holds a pizza or whose pickup succeeds commits:
\* it is delivering the selected order to the location of that order's house
\* and its move call goes to that location.
C19_Commit ==
    (IdleTick /\ obs.Orders # << >> /\ (obs.PizzaAmount > 0 \/ obs.bGrabbedPizza)) =>
        /\ bDeliveringOrder
        /\ CurrentOrderNumber = ExpectedOrder.OrderNumber
        /\ CurrentDestination = HouseLocations[ExpectedOrder.HouseNumber]
        /\ calls[Len(calls)] = SetNewMoveDestination(HouseLocations[ExpectedOrder.HouseNumber])
        /\ moveTarget = HouseLocations[ExpectedOrder.HouseNumber]

C19_Witness ==
    /\ IdleTick
    /\ Len(obs.Orders) = 2
    /\ obs.PizzaAmount > 0
    /\ obs.Orders[1].HouseNumber # ExpectedOrder.HouseNumber
    /\ bDeliveringOrder
    /\ CurrentDestination = HouseLocations[ExpectedOrder.HouseNumber]

\* ----------------------------------------------------------------- C20 --
\* C20 as stated, at the tick that starts the delivery: a delivery that
\* starts Flagged is the delivery of the most urgent order, which passed the
\* escalation test in that tick.
C20_Original ==
    (branch = "commit" /\ terribleStatus = 1) =>
        /\ EscalationPasses
        /\ CurrentOrderNumber = obs.Orders[obs.terribleOrder].OrderNumber

\* C20 (amended): a delivery that starts Flagged either is the delivery of
\* the most urgent order, which passed the escalation test in the tick that
\* started it, or is the delivery of the closest order and started from a
\* tick that was already Flagged (left so by an earlier tick whose pickup
\* failed); while delivering, no step makes the urgency Flagged or changes
\* the active order.
C20_FlaggedAtCommit ==
    (branch = "commit" /\ terribleStatus = 1) =>
        \/ /\ EscalationPasses
           /\ CurrentOrderNumber = obs.Orders[obs.terribleOrder].OrderNumber
        \/ /\ pre.terribleStatus = 1
           /\ CurrentOrderNumber = obs.Orders[obs.closestOrder].OrderNumber

C20_FlaggedKept ==
    (bDeliveringOrder /\ bDeliveringOrder' /\ terribleStatus' = 1) =>
        /\ terribleStatus = 1
        /\ CurrentOrderNumber' = CurrentOrderNumber

C20_FlaggedOrigin == [] C20_FlaggedAtCommit /\ [][C20_FlaggedKept]_vars

C20_Witness ==
    /\ branch = "commit"
    /\ terribleStatus = 1
    /\ pre.terribleStatus = 1
    /\ ~EscalationPasses
    /\ CurrentOrderNumber = obs.Orders[obs.closestOrder].OrderNumber

(* ----------------------------------------------------------------------- *)
(* The battery game                                                        *)
(* ----------------------------------------------------------------------- *)
IsGameModeTick == gstep \in {"decay", "gameOver"}

GameIsOver == begun /\ CurrentState = "EGameOver"

\* the state stays over and no pickup comes into the level
C13_StaysOver ==
    GameIsOver =>
        /\ CurrentState' = "EGameOver"
        /\ gstep' # "spawn"
        /\ Unspawned' = Unspawned

\* a game-mode Tick that sees the power at or below the threshold ends the game
C13_TickEndsGame ==
    (IsGameModeTick' /\ PowerLevel <= PowerThreshold) =>
        /\ gstep' = "gameOver"
        /\ CurrentState' = "EGameOver"

C13_SpawningOff == GameIsOver => \A v \in SpawnVolumeActors : ~bSpawningEnabled[v]

\* C13: once the game-mode Tick sees the character's PowerLevel at or below
\* the threshold the state is EGameOver and spawning is disabled on every
\* spawn volume recorded at BeginPlay; from then on, whatever ticks and
\* CollectBatteries calls follow, no spawn-volume Tick spawns a pickup and
\* the state never leaves EGameOver.
C13_GameOverIsFinal ==
    /\ [] C13_SpawningOff
    /\ [][C13_TickEndsGame /\ C13_StaysOver]_vars

\* a volume ticked after the game ended, with a pickup still left to spawn
C13_Witness ==
    /\ GameIsOver
    /\ gstep = "volumeOff"
    /\ Unspawned # {}
    /\ SpawnVolumeActors = Volumes

\* C14: when the game state is EGameOver, CollectBatteries changes nothing:
\* the character's PowerLevel is unchanged, no battery is deactivated or
\* picked up, and PowerUp is not invoked, whatever batteries overlap the
\* collection sphere.
C14_NoCollectWhenOver ==
    [][(gstep' = "collect" /\ CurrentState = "EGameOver") =>
            /\ PowerLevel' = PowerLevel
            /\ batteries' = batteries
            /\ powerUp' = << >>]_vars

\* CollectBatteries was called after the game ended with a charged, active
\* battery inside the collection sphere
C14_Witness ==
    /\ GameIsOver
    /\ gstep = "collect"
    /\ \E b \in overlapping : IsCollectable(b) /\ batteries[b].PowerLevel > 0

(* ----------------------------------------------------------------------- *)
(* Urgency and phase over whole deliveries                                 *)
(* ----------------------------------------------------------------------- *)
\* a delivery never starts with the status 2
C21_NotCommittedAtStart == ~(branch = "commit" /\ terribleStatus = 2)

\* during a delivery the status becomes 2 only in a tick that measured the
\* destination within the arrival radius
C21_PromotedNear ==
    (bDeliveringOrder /\ bDeliveringOrder' /\ terribleStatus # 2 /\ terribleStatus' = 2) =>
        /\ IsTick'
        /\ obs'.Distance <= ArrivalRadius

C21_CommittedAtStart ==
    (branch = "commit" /\ terribleStatus = 2) =>
        /\ ~pre.bDeliveringOrder
        /\ pre.terribleStatus = 2
        /\ ~obs.escalated

\* the status 2 comes from a status 1 promoted strictly inside the arrival
\* radius, or from a completed delivery
C21_CommittedOrigin ==
    (terribleStatus # 2 /\ terribleStatus' = 2) =>
        /\ bDeliveringOrder
        /\ obs'.Distance <= ArrivalRadius
        /\ \/ branch' = "deliverOk" /\ ~bDeliveringOrder'
           \/ /\ branch' = "deliverFail"
              /\ bDeliveringOrder'
              /\ terribleStatus = 1
              /\ obs'.Distance < ArrivalRadius

ActiveOrderPending == CurrentOrderNumber \in PendingNumbers(Orders)

\* C22 as stated: under the fair world every delivering state is eventually
\* followed by an idle one.
C22_Original == bDeliveringOrder ~> ~bDeliveringOrder

\* an active order that left the pending list is never given up: the agent
\* goes on delivering it
C22_NeverAbandons ==
    (bDeliveringOrder /\ ~ActiveOrderPending) =>
        /\ bDeliveringOrder'
        /\ CurrentOrderNumber' = CurrentOrderNumber
        /\ ~ActiveOrderPending'

\* C22: under the fair world every delivering state is eventually followed
\* by an idle state or by a state in which the active order has left the
\* pending list; from such a state on the agent stays delivering that order
\* for ever.
C22_RunsToCompletion ==
    /\ (bDeliveringOrder /\ ActiveOrderPending) ~> (~bDeliveringOrder \/ ~ActiveOrderPending)
    /\ [][C22_NeverAbandons]_vars

\* the agent is at the house of an order that the world has withdrawn and
\* has just tried to deliver it
C22_Witness ==
    /\ branch = "deliverFail"
    /\ bDeliveringOrder
    /\ ~ActiveOrderPending

\* the phase goes back to idle only in a tick that measured the destination
\* within the arrival radius and whose TryDeliverPizza, called with the
\* active order, returned true
C23_LeavesByDelivery ==
    (bDeliveringOrder /\ ~bDeliveringOrder') =>
        /\ branch' = "deliverOk"
        /\ obs'.Distance = GetDistanceToDestination(CurrentDestination)
        /\ obs'.Distance <= ArrivalRadius
        /\ calls' = <<TryDeliverPizza(CurrentOrderNumber)>>
        /\ obs'.bDeliveredOrder

\* while the agent goes on delivering, the order and the destination stay
C23_OrderKept ==
    (bDeliveringOrder /\ bDeliveringOrder') =>
        /\ CurrentOrderNumber' = CurrentOrderNumber
        /\ CurrentDestination' = CurrentDestination

\* C23: the phase changes from delivering to idle only in a tick in which
\* the distance to the destination is at most 300 and TryDeliverPizza was
\* called with the active order and returned true; from the start of the
\* delivery until that tick the active order and the destination never
\* change, whatever the pending list, the countdowns and the status do.
C23_DeliveryEnds == [][C23_LeavesByDelivery /\ C23_OrderKept]_vars

\* a delivery completed while another order was pending
C23_Witness ==
    /\ branch = "deliverOk"
    /\ pre.bDeliveringOrder
    /\ ~bDeliveringOrder
    /\ Len(obs.Orders) = 2
    /\ calls = <<TryDeliverPizza(pre.CurrentOrderNumber)>>

(* ----------------------------------------------------------------------- *)
(* Action guards                                                           *)
(* ----------------------------------------------------------------------- *)
CallsOf(name) == {i \in 1 .. Len(calls) : calls[i].op = name}

C24_DeliverGuard ==
    \A i \in CallsOf("TryDeliverPizza") :
        /\ pre.bDeliveringOrder
        /\ obs.Distance <= ArrivalRadius
        /\ calls[i].arg = pre.CurrentOrderNumber

C24_GrabGuard ==
    \A i \in CallsOf("TryGrabPizza") :
        /\ ~pre.bDeliveringOrder
        /\ obs.Orders # << >>
        /\ obs.PizzaAmount = 0

C24_MoveGuard ==
    \A i \in CallsOf("SetNewMoveDestination") :
        /\ calls[i].arg = CurrentDestination
        /\ pre.bDeliveringOrder \/ bDeliveringOrder

\* C24: in every tick TryDeliverPizza is called only while delivering with
\* the measured distance at most 300, and with the active order;
\* TryGrabPizza is called only while idle with a non-empty pending list and
\* no pizza held; SetNewMoveDestination is called only with the current
\* destination and never in a tick that starts and ends idle.
C24_ActionGuards ==
    IsTick => (C24_DeliverGuard /\ C24_GrabGuard /\ C24_MoveGuard)

\* a tick that grabbed a pizza and set off
C24_Witness ==
    /\ branch = "commit"
    /\ calls = <<TryGrabPizza, SetNewMoveDestination(CurrentDestination)>>
    /\ CurrentDestination \in Points

(* ----------------------------------------------------------------------- *)
(* Transitions of the status                                               *)
(* ----------------------------------------------------------------------- *)
C25_StartsNormal == branch = "init" => terribleStatus = 0

SelectionTick == branch \in {"commit", "pickupFail"}

\* a step that changes the status is one of the three transitions
C25_StatusChange ==
    (terribleStatus' # terribleStatus) =>
        \/ /\ terribleStatus = 0 /\ terribleStatus' = 1
           /\ ~bDeliveringOrder
           /\ SelectionTick'
           /\ obs'.escalated
        \/ /\ terribleStatus = 1 /\ terribleStatus' = 2
           /\ bDeliveringOrder
           /\ branch' \in {"deliverOk", "deliverFail"}
           /\ obs'.Distance <= ArrivalRadius
        \/ /\ branch' = "deliverOk"
           /\ obs'.bDeliveredOrder
           /\ terribleStatus' \in {0, 2}

\* a selection tick whose escalation test passes ends with the status 1 and
\* did not start with the status 2
C25_EscalationFlags ==
    (SelectionTick' /\ obs'.escalated) =>
        /\ terribleStatus \in {0, 1}
        /\ terribleStatus' = 1

\* C25: the status starts at 0 and in one step only moves 0 to 1 or 1 to 1
\* in an idle selection tick whose escalation test passes, 1 to 2 in a
\* delivering tick within the arrival radius, and from any value to 0 or 2
\* in a tick whose TryDeliverPizza succeeds; so 2 never becomes 1, and 1 or
\* 2 never becomes 0 without a successful delivery.
C25_StatusTransitions ==
    /\ [] C25_StartsNormal
    /\ [][C25_StatusChange /\ C25_EscalationFlags]_vars

\* a delivery attempt that failed promoted the status from 1 to 2
C25_Witness ==
    /\ branch = "deliverFail"
    /\ pre.terribleStatus = 1
    /\ terribleStatus = 2

(* ----------------------------------------------------------------------- *)
(* Collecting batteries                                                    *)
(* ----------------------------------------------------------------------- *)
\* a CollectBatteries call made while the game is not over
CollectStep == gstep' = "collect" /\ CurrentState # "EGameOver"

\* the overlapping batteries that are active and not pending kill
ActiveOverlapping ==
    {b \in overlapping :
        batteries[b].spawned /\ batteries[b].bIsActive /\ ~batteries[b].pendingKill}

C26_Deactivates ==
    CollectStep =>
        \A b \in Batteries :
            IF b \in ActiveOverlapping
            THEN ~batteries'[b].bIsActive /\ batteries'[b].pendingKill
            ELSE batteries'[b] = batteries[b]

\* a battery that is inactive or pending kill stays so
C26_NoRevival ==
    \A b \in Batteries :
        (batteries[b].spawned /\ (~batteries[b].bIsActive \/ batteries[b].pendingKill)) =>
            (~batteries'[b].bIsActive \/ batteries'[b].pendingKill)

C26_AddsSum == CollectStep => PowerLevel' = PowerLevel + SumPower(ActiveOverlapping)

C26_AddsPositiveSum ==
    CollectStep =>
        LET BatteryPower == SumPower(ActiveOverlapping)
        IN  IF BatteryPower > 0
            THEN PowerLevel' = PowerLevel + BatteryPower /\ powerUp' = <<BatteryPower>>
            ELSE PowerLevel' = PowerLevel /\ powerUp' = << >>

====
